---- MODULE Spec2Model ----
(***************************************************************************)
(* A model of the RPN calculator of main.go: the classifier Parse, the     *)
(* stack evaluator Eval and the read loop of main.                         *)
(*                                                                         *)
(* The model keeps what the Go code keeps:                                 *)
(*   - a Var cell is a record (Type, V, F, Code); F is a POINTER to a      *)
(*     big.Float, so two cells may share one number, and Code is a SLICE   *)
(*     of a backing array, so a macro body may share memory with the       *)
(*     stack;                                                              *)
(*   - the stack is a slice (array, length) of a backing array with a      *)
(*     capacity; append writes in place while the capacity lasts;          *)
(*   - a big.Float made by big.NewFloat has a mantissa of Prec = 53 bits   *)
(*     and every result is rounded to it (to nearest, ties to even).       *)
(***************************************************************************)
EXTENDS Integers, Sequences, FiniteSets, TLC

(***************************************************************************)
(* Bounds of the model.                                                    *)
(***************************************************************************)
MaxLines == 2   \* input lines read in one session
MaxStack == 8   \* longest stack (and largest array) the model builds
MaxMag == 64    \* largest binary exponent of a number the model follows

(***************************************************************************)
(* Program constants.                                                      *)
(***************************************************************************)
Prec == 53      \* precision of big.NewFloat(x): 53 bits
NilPtr == 0     \* the nil *big.Float, and the array of a nil slice
ZeroPtr == 1    \* the global Zero = big.NewFloat(0)
OnePtr == 2     \* the global One = big.NewFloat(1)

Max(S) == CHOOSE x \in S : \A y \in S : y <= x
Min(S) == CHOOSE x \in S : \A y \in S : x <= y

(***************************************************************************)
(* Magnitudes.  A non-negative binary number is the set of the positions   *)
(* of its one bits (position k weighs 2^k, negative k for a fraction), so  *)
(* that numbers beyond machine integers are exact.                          *)
(***************************************************************************)
\* S + T: bit k of the sum is S[k] xor T[k] xor the carry into k, and a carry
\* enters k when a lower position j has both bits and every position between j
\* and k has one
BAdd(S, T) ==
    LET U == S \cup T
        G == S \cap T
        Carry(k) == \E j \in G : j < k /\ \A m \in (j + 1)..(k - 1) : m \in U
    IN IF S = {} THEN T
       ELSE IF T = {} THEN S
       ELSE {k \in Min(U)..(Max(U) + 1) : ((k \in S) # (k \in T)) # Carry(k)}

\* S - T, for S >= T: a borrow leaves k when a lower position j has a bit of T
\* and none of S and no position between j and k has a bit of S and none of T
BSub(S, T) ==
    LET B == T \ S
        Borrow(k) == \E j \in B : j < k /\ \A m \in (j + 1)..(k - 1) : m \notin S \/ m \in T
    IN IF T = {} THEN S
       ELSE {k \in Min(S \cup T)..Max(S \cup T) : ((k \in S) # (k \in T)) # Borrow(k)}

BCmp(S, T) == LET D == (S \ T) \cup (T \ S)
              IN IF D = {} THEN 0 ELSE IF Max(D) \in S THEN 1 ELSE -1

BShift(S, k) == {b + k : b \in S}

\* S * T: the sum of the copies of S shifted by the bits of T, added pairwise
RECURSIVE BMul(_, _)
BMul(S, T) ==
    IF S = {} \/ T = {} THEN {}
    ELSE IF Cardinality(T) = 1 THEN BShift(S, Max(T))
    ELSE LET mid == CHOOSE k \in T : 2 * Cardinality({b \in T : b < k}) \in
                                       {Cardinality(T), Cardinality(T) - 1}
         IN BAdd(BMul(S, {b \in T : b < mid}), BMul(S, {b \in T : b >= mid}))

\* rounding to Prec bits, to nearest, ties to even (big.Float's ToNearestEven)
BRound(S) == IF S = {} THEN {}
             ELSE LET lsb == Max(S) - Prec + 1
                      keep == {b \in S : b >= lsb}
                      up == (lsb - 1) \in S
                            /\ (lsb \in S \/ \E b \in S : b < lsb - 1)
                  IN IF up THEN BAdd(keep, {lsb}) ELSE keep

\* long division of rem by T from bit k down to bit low; a remainder that is
\* left sets a sticky bit below the rounding position
RECURSIVE BDiv(_, _, _, _, _)
BDiv(rem, T, k, low, acc) ==
    IF k < low THEN IF rem = {} THEN acc ELSE acc \cup {low - 2}
    ELSE LET d == BShift(T, k)
         IN IF BCmp(rem, d) >= 0
            THEN BDiv(BSub(rem, d), T, k - 1, low, acc \cup {k})
            ELSE BDiv(rem, T, k - 1, low, acc)

BQuo(S, T) == LET top == Max(S) - Max(T)
              IN BRound(BDiv(S, T, top, top - Prec - 1, {}))

NatBits(n) == {k \in 0..30 : (n \div 2^k) % 2 = 1}

RECURSIVE BitsNat(_)
BitsNat(S) == IF S = {} THEN 0
              ELSE LET k == Max(S) IN 2^k + BitsNat(S \ {k})

\* the integer part of a magnitude
BTrunc(S) == {b \in S : b >= 0}

(***************************************************************************)
(* big.Float values: sign, infinity, magnitude.  A zero has a sign too.    *)
(* An operation that panics with big.ErrNaN gives FPanic.                  *)
(***************************************************************************)
FVal(neg, bits) == [neg |-> neg, inf |-> FALSE, bits |-> bits]
FInf(neg) == [neg |-> neg, inf |-> TRUE, bits |-> {}]
FPanic == [panic |-> TRUE, v |-> FVal(FALSE, {})]
FOk(v) == [panic |-> FALSE, v |-> v]
FIsZero(x) == ~x.inf /\ x.bits = {}
FIsFinite(x) == ~x.inf /\ x.bits # {}

\* big.NewFloat(float64(n)) for a small integer n
FromInt(n) == IF n < 0 THEN FVal(TRUE, NatBits(-n)) ELSE FVal(FALSE, NatBits(n))

\* (*Float).Neg
FNeg(x) == [x EXCEPT !.neg = ~x.neg]

\* (*Float).Add, z of precision Prec
FAdd(x, y) ==
    IF FIsFinite(x) /\ FIsFinite(y)
    THEN IF x.neg = y.neg
         THEN FOk(FVal(x.neg, BRound(BAdd(x.bits, y.bits))))
         ELSE IF BCmp(x.bits, y.bits) > 0
              THEN FOk(FVal(x.neg, BRound(BSub(x.bits, y.bits))))
              ELSE LET d == BSub(y.bits, x.bits)
                   IN IF d = {} THEN FOk(FVal(FALSE, {}))
                      ELSE FOk(FVal(~x.neg, BRound(d)))
    ELSE IF x.inf /\ y.inf /\ x.neg # y.neg THEN FPanic
    ELSE IF FIsZero(x) /\ FIsZero(y) THEN FOk(FVal(x.neg /\ y.neg, {}))
    ELSE IF x.inf \/ FIsZero(y) THEN FOk(x)
    ELSE FOk(y)

\* (*Float).Sub
FSub(x, y) == FAdd(x, FNeg(y))

\* (*Float).Mul
FMul(x, y) ==
    IF FIsFinite(x) /\ FIsFinite(y)
    THEN FOk(FVal(x.neg # y.neg, BRound(BMul(x.bits, y.bits))))
    ELSE IF (FIsZero(x) /\ y.inf) \/ (x.inf /\ FIsZero(y)) THEN FPanic
    ELSE IF x.inf \/ y.inf THEN FOk(FInf(x.neg # y.neg))
    ELSE FOk(FVal(x.neg # y.neg, {}))

\* (*Float).Quo
FQuo(x, y) ==
    IF FIsFinite(x) /\ FIsFinite(y)
    THEN FOk(FVal(x.neg # y.neg, BQuo(x.bits, y.bits)))
    ELSE IF (FIsZero(x) /\ FIsZero(y)) \/ (x.inf /\ y.inf) THEN FPanic
    ELSE IF FIsZero(x) \/ y.inf THEN FOk(FVal(x.neg # y.neg, {}))
    ELSE FOk(FInf(x.neg # y.neg))

\* (*Float).ord: -2, -1, 0, 1, 2
FOrd(x) == LET m == IF x.inf THEN 2 ELSE IF x.bits = {} THEN 0 ELSE 1
           IN IF x.neg THEN -m ELSE m

\* (*Float).Cmp
FCmp(x, y) ==
    LET mx == FOrd(x)
        my == FOrd(y)
    IN IF mx < my THEN -1
       ELSE IF mx > my THEN 1
       ELSE IF mx = -1 THEN BCmp(y.bits, x.bits)
       ELSE IF mx = 1 THEN BCmp(x.bits, y.bits)
       ELSE 0

\* whether (*Float).Int64 of x is below 2^30, the integers the model reads
\* exactly (a larger count stops the model, see EvalStep)
FIntSmall(x) == ~x.inf /\ \A b \in x.bits : b < 30

\* (*Float).Int64: truncation toward zero
FInt64(x) == LET n == BitsNat(BTrunc(x.bits)) IN IF x.neg THEN -n ELSE n

\* big.NewInt(0).Not(a) for a = x.Int(nil), set into a Float: -a - 1
FNotInt(x) ==
    LET a == BTrunc(x.bits)
    IN IF x.neg /\ a # {} THEN FVal(FALSE, BRound(BSub(a, {0})))
       ELSE FVal(TRUE, BRound(BAdd(a, {0})))

(***************************************************************************)
(* Memory: Var cells, slices and backing arrays.                           *)
(***************************************************************************)
NilSlice == [arr |-> NilPtr, off |-> 0, len |-> 0]

\* the struct Var; B (the bytes of a String) is not modelled
MkVar(t, v, f, code) == [Type |-> t, V |-> v, F |-> f, Code |-> code]

\* the zero value Var{}: Type is Number (iota 0), F is nil
ZeroVar == MkVar("Number", "", NilPtr, NilSlice)

Range(f) == {f[x] : x \in DOMAIN f}

\* the smallest identifier that the heap f does not use
NewId(f) == Min({k \in 1..(Cardinality(DOMAIN f) + 1) : k \notin DOMAIN f})

\* cap(s)
Cap(A, s) == IF s.arr = NilPtr THEN 0 ELSE Len(A[s.arr]) - s.off

\* the elements of the slice s
Elems(A, s) == IF s.len = 0 THEN <<>>
               ELSE SubSeq(A[s.arr], s.off + 1, s.off + s.len)

\* the size classes of the Go allocator up to 2048 bytes, and the size of a Var
\* (int, string, pointer and two slices on a 64-bit machine)
SizeClasses == {8, 16, 24, 32, 48, 64, 80, 96, 112, 128, 144, 160, 176, 192, 208,
                224, 240, 256, 288, 320, 352, 384, 416, 448, 480, 512, 576, 640,
                704, 768, 896, 1024, 1152, 1280, 1408, 1536, 1792, 2048}
VarSize == 80

\* the capacity append gives a slice it has to grow (runtime.growslice, below
\* 256 elements): twice the old capacity or what is needed, rounded up to a
\* size class
GrowCap(old, need) ==
    LET c == IF need > 2 * old THEN need ELSE 2 * old
    IN Min({k \in SizeClasses : k >= c * VarSize}) \div VarSize

\* append(dst, src...): in place while the capacity lasts, else into a new
\* array.  src is read before anything is written (memmove)
GoAppend(A, dst, src) ==
    LET need == dst.len + Len(src)
    IN IF Len(src) = 0 THEN [A |-> A, s |-> dst]
       ELSE IF need <= Cap(A, dst)
       THEN [A |-> [A EXCEPT ![dst.arr] =
                      [k \in 1..Len(@) |->
                         IF k > dst.off + dst.len /\ k <= dst.off + need
                         THEN src[k - dst.off - dst.len] ELSE @[k]]],
             s |-> [dst EXCEPT !.len = need]]
       ELSE LET id == NewId(A)
                old == Elems(A, dst)
            IN [A |-> A @@ (id :> [k \in 1..GrowCap(Cap(A, dst), need) |->
                                     IF k <= dst.len THEN old[k]
                                     ELSE IF k <= need THEN src[k - dst.len]
                                     ELSE ZeroVar]),
                s |-> [arr |-> id, off |-> 0, len |-> need]]

\* s[lo:hi] of a slice s; the caller checks 0 <= lo <= hi <= cap(s)
Reslice(s, lo, hi) == IF s.arr = NilPtr THEN NilSlice
                      ELSE [arr |-> s.arr, off |-> s.off + lo, len |-> hi - lo]

\* the arrays reachable from the set S of arrays through the Code of cells
RECURSIVE ArrClosure(_, _)
ArrClosure(A, S) ==
    LET next == S \cup (UNION {{c.Code.arr : c \in Range(A[a])} : a \in S}
                        \ {NilPtr})
    IN IF next = S THEN S ELSE ArrClosure(A, next)

\* what the garbage collector keeps: the arrays reachable from the stack and
\* the variable table, and the floats their cells point to
LiveArrays(A, st, vm) ==
    ArrClosure(A, ({st.arr} \cup {vm[n].Code.arr : n \in DOMAIN vm}) \ {NilPtr})

LiveFloats(A, st, vm) ==
    ({ZeroPtr, OnePtr}
     \cup {vm[n].F : n \in DOMAIN vm}
     \cup UNION {{c.F : c \in Range(A[a])} : a \in LiveArrays(A, st, vm)})
    \ {NilPtr}

Restrict(f, S) == [x \in S |-> f[x]]

(***************************************************************************)
(* The classifier.  A token is a string; the tokens of the model hold no   *)
(* underscore, no fraction and no exponent of more digits than float32     *)
(* can hold.                                                               *)
(***************************************************************************)
keyWords0 ==
    {"+", "-", "*", "/", "cla", "clr", "clv", "!", "%", "++", "--",
     "&", "|", "^", "~", "<<", ">>", "&&", "||", "^^",
     "!=", "<", "<=", "==", ">", ">=",
     "acos", "asin", "atan", "cos", "cosh", "sin", "sinh", "tanh",
     "ceil", "floor", "round", "ip", "fp", "sign", "abs", "max", "min",
     "hex", "dec", "bin", "oct", "e", "pi", "rand",
     "exp", "fact", "sqrt", "ln", "log", "pow",
     "hnl", "hns", "nhl", "nhs",
     "pick", "repeat", "depth", "drop", "dropn", "dup", "dupn", "roll",
     "rolld", "stack", "swap", "macro", "=", "help", "exit", "debug"}

DecDigits == {"0", "1", "2", "3", "4", "5", "6", "7", "8", "9"}
HexDigits == DecDigits \cup {"a", "b", "c", "d", "e", "f", "A", "B", "C", "D", "E", "F"}
Signs == {"+", "-"}

\* the byte 0, which s[0] == 0 of getBase compares with; no string of the
\* model holds it
NUL == "<NUL>"

\* the k-th character of s (from 1), "" past its end
At(s, k) == IF k >= 1 /\ k <= Len(s) THEN SubSeq(s, k, k) ELSE ""

\* for s.accept(set) { }: the first position from k on that is not in set
RECURSIVE SkipIn(_, _, _)
SkipIn(s, k, set) == IF At(s, k) \in set THEN SkipIn(s, k + 1, set) ELSE k

\* fmt.Sscanf(s, "%f", &tmpF) returns no error: the token floatToken reads
\* from the front of s is one strconv.ParseFloat (convertFloat) accepts
ScanFloatOK(s) ==
    IF At(s, 1) \in {"n", "N"}
    THEN At(s, 2) \in {"a", "A"} /\ At(s, 3) \in {"n", "N"}
    ELSE LET k1 == IF At(s, 1) \in Signs THEN 2 ELSE 1
         IN IF At(s, k1) \in {"i", "I"}
            THEN At(s, k1 + 1) \in {"n", "N"} /\ At(s, k1 + 2) \in {"f", "F"}
            ELSE LET hex == At(s, k1) = "0" /\ At(s, k1 + 1) \in {"x", "X"}
                     ds == IF hex THEN HexDigits ELSE DecDigits
                     m0 == IF hex THEN k1 + 2 ELSE k1
                     m1 == SkipIn(s, m0, ds)
                     dot == At(s, m1) = "."
                     f0 == IF dot THEN m1 + 1 ELSE m1
                     f1 == SkipIn(s, f0, ds)
                     nDig == (m1 - m0) + (f1 - f0)
                     ech == At(s, f1)
                     hasExp == ech \in (IF hex THEN {"p", "P"}
                                        ELSE {"e", "E", "p", "P"})
                     e0 == IF At(s, f1 + 1) \in Signs THEN f1 + 2 ELSE f1 + 1
                     nExp == SkipIn(s, e0, DecDigits) - e0
                 IN /\ nDig >= 1
                    /\ hex => hasExp
                    /\ hasExp => (nExp >= 1 /\ (hex \/ ech # "P"))

\* fmt.Sscanf(s, "%i", &tmpI) returns no error: never, %i is no verb of fmt's
\* scanning ("bad verb '%i' for integer")
ScanIntOK(s) == FALSE

\* getBase
getBase(s) ==
    IF Len(s) = 0 THEN -1
    ELSE IF At(s, 1) = NUL /\ Len(s) > 3 /\ At(s, 2) \in {"x", "d", "o", "b"}
    THEN CASE At(s, 2) = "x" -> 16
           [] At(s, 2) = "d" -> 10
           [] At(s, 2) = "o" -> 8
           [] At(s, 2) = "b" -> 2
    ELSE IF ~ScanFloatOK(s) /\ ~ScanIntOK(s) THEN 0
    ELSE 10

DigitVal(c) == CHOOSE d \in 0..9 : ToString(d) = c

\* the number a short string of decimal digits writes
RECURSIVE DecNat(_)
DecNat(s) ==
    IF Len(s) = 0 THEN 0
    ELSE 10 * DecNat(SubSeq(s, 1, Len(s) - 1)) + DigitVal(At(s, Len(s)))

\* the magnitude of a string of decimal digits, eight digits at a time
RECURSIVE DecBits(_)
DecBits(s) ==
    IF Len(s) <= 8 THEN NatBits(DecNat(s))
    ELSE BAdd(BMul(DecBits(SubSeq(s, 1, Len(s) - 8)), NatBits(100000000)),
              NatBits(DecNat(SubSeq(s, Len(s) - 7, Len(s)))))

\* big.NewFloat(0).Parse(s, base): the whole of s must be a number; the result
\* is rounded to Prec bits.  (A base other than 10 reaches Parse only with a
\* token that starts with the byte 0, which is no number.)
BigParse(s, base) ==
    LET k1 == IF At(s, 1) \in Signs THEN 2 ELSE 1
        k2 == SkipIn(s, k1, DecDigits)
        neg == At(s, 1) = "-"
    IN IF base = 10 /\ SubSeq(s, k1, Len(s)) \in {"Inf", "inf"}
       THEN [ok |-> TRUE, v |-> FInf(neg)]
       ELSE IF base = 10 /\ k2 > k1 /\ k2 = Len(s) + 1
       THEN [ok |-> TRUE, v |-> FVal(neg, BRound(DecBits(SubSeq(s, k1, k2 - 1))))]
       ELSE [ok |-> FALSE, v |-> FVal(FALSE, {})]

\* one turn of the loop of Parse: P holds the cells so far (stack), the heap of
\* floats and whether the token put a name into vars
ParseTok(P, tok, kw) ==
    LET base == getBase(tok)
        name == SubSeq(tok, 1, Len(tok) - 1)
        num == BigParse(tok, base)
        p == NewId(P.floats)
    IN IF base = 0
       THEN IF name = "="
            THEN [P EXCEPT !.stack = Append(@, MkVar("Assignment", name, ZeroPtr, NilSlice)),
                           !.vars = @ \cup {name}]
            ELSE IF tok \in kw
            THEN [P EXCEPT !.stack = Append(@, MkVar("Code", tok, ZeroPtr, NilSlice))]
            ELSE [P EXCEPT !.stack = Append(@, MkVar("Variable", tok, ZeroPtr, NilSlice))]
       ELSE IF ~num.ok THEN P
       ELSE [P EXCEPT !.stack = Append(@, MkVar("Number", "", p, NilSlice)),
                      !.floats = @ @@ (p :> num.v)]

\* Parse(lex): the cells of the line, the floats it allocates and the names it
\* registers (each bound to Var{Type: Code, V: "=", F: Zero})
RECURSIVE Parse(_, _, _)
Parse(lex, H, kw) ==
    IF Len(lex) = 0 THEN [stack |-> <<>>, floats |-> H, vars |-> {}]
    ELSE ParseTok(Parse(SubSeq(lex, 1, Len(lex) - 1), H, kw), lex[Len(lex)], kw)

(***************************************************************************)
(* The evaluator.  A machine M is what one turn of the loop of Eval reads  *)
(* and writes: stack, arrays, floats, vars (nil: a nil map), keyWords, the *)
(* flags and the loop index i.  M.st tells how the turn ended: "ok",       *)
(* "fault" (a panic, recovered by the deferred function) or "fatal"        *)
(* (log.Fatal).                                                            *)
(***************************************************************************)
Fault(M) == [M EXCEPT !.st = "fault"]
Fatal(M) == [M EXCEPT !.st = "fatal"]

InRange(M, k) == k >= 0 /\ k < M.stack.len

\* stack[k], for k in range
Cell(M, k) == M.arrays[M.stack.arr][M.stack.off + k + 1]

\* stack[k] exists and its F is not nil
HasF(M, k) == InRange(M, k) /\ Cell(M, k).F # NilPtr

\* *stack[k].F
FloatAt(M, k) == M.floats[Cell(M, k).F]

\* stack[k] = c
SetCell(M, k, c) == [M EXCEPT !.arrays[M.stack.arr][M.stack.off + k + 1] = c]

\* stack[k].F = big.NewFloat(v)
SetNewFloat(M, k, v) ==
    LET p == NewId(M.floats)
    IN [M EXCEPT !.floats = @ @@ (p :> v),
                 !.arrays[M.stack.arr][M.stack.off + k + 1].F = p]

\* *stack[k].F = v; stack[k].Type = t
SetFloat(M, k, v) == [M EXCEPT !.floats[Cell(M, k).F] = v]
SetType(M, k, t) == [M EXCEPT !.arrays[M.stack.arr][M.stack.off + k + 1].Type = t]

\* remove(stack, pos, n) does not panic: stack[:pos-n] and stack[pos:]
RemoveOK(M, pos, n) ==
    pos >= 0 /\ pos <= M.stack.len /\ pos - n >= 0 /\ pos - n <= Cap(M.arrays, M.stack)

\* remove(stack, pos, n) = append(stack[:pos-n], stack[pos:]...): what it
\* returns (s) and what it leaves in memory (A)
remove(M, pos, n) ==
    GoAppend(M.arrays, Reslice(M.stack, 0, pos - n),
             Elems(M.arrays, Reslice(M.stack, pos, M.stack.len)))

\* stack = remove(stack, pos, n); i -= d
RemoveStep(M, pos, n, d) ==
    IF ~RemoveOK(M, pos, n) THEN Fault(M)
    ELSE LET r == remove(M, pos, n)
         IN [M EXCEPT !.arrays = r.A, !.stack = r.s, !.i = @ - d]

\* case "+", "-", "*", "/"
EvalArith(M) ==
    LET i == M.i
        x == FloatAt(M, i - 2)
        y == FloatAt(M, i - 1)
        op == Cell(M, i).V
        r == CASE op = "+" -> FAdd(x, y)
               [] op = "-" -> FSub(x, y)
               [] op = "*" -> FMul(x, y)
               [] op = "/" -> FQuo(x, y)
    IN IF ~(HasF(M, i - 2) /\ HasF(M, i - 1)) THEN Fault(M)
       ELSE IF r.panic THEN Fault(M)
       ELSE RemoveStep(SetType(SetFloat(M, i, r.v), i, "Number"), i, 2, 2)

\* the result of a comparison, from stack[i-1].F.Cmp(stack[i-2].F)
CmpResult(op, c) ==
    CASE op = "!=" -> IF c = 0 THEN ZeroPtr ELSE OnePtr
      [] op = "==" -> IF c = 0 THEN OnePtr ELSE ZeroPtr
      [] op = "<"  -> IF c = -1 THEN OnePtr ELSE ZeroPtr
      [] op = "<=" -> IF c = 1 THEN ZeroPtr ELSE OnePtr
      [] op = ">"  -> IF c = 1 THEN OnePtr ELSE ZeroPtr
      [] op = ">=" -> IF c = -1 THEN ZeroPtr ELSE OnePtr

\* case "!=", "==", "<", "<=", ">", ">="
EvalCompare(M) ==
    LET i == M.i
        c == FCmp(FloatAt(M, i - 1), FloatAt(M, i - 2))
        res == [Cell(M, i) EXCEPT !.F = CmpResult(Cell(M, i).V, c), !.Type = "Number"]
    IN IF ~(HasF(M, i - 2) /\ HasF(M, i - 1)) THEN Fault(M)
       ELSE RemoveStep(SetCell(M, i, res), i, 2, 2)

\* case "!", "++", "--": the float below is changed in place
EvalUnary(M) ==
    LET i == M.i
        x == FloatAt(M, i - 1)
        op == Cell(M, i).V
        v == CASE op = "!" -> FNeg(x)
               [] op = "++" -> FAdd(x, FromInt(1)).v
               [] op = "--" -> FSub(x, FromInt(1)).v
    IN IF ~HasF(M, i - 1) THEN Fault(M)
       ELSE RemoveStep(SetFloat(M, i - 1, v), i + 1, 1, 1)

\* case "~": reads stack[i-2], replaces stack[i-1]
EvalBitNot(M) ==
    LET i == M.i
    IN IF ~HasF(M, i - 2) THEN Fault(M)
       ELSE IF FloatAt(M, i - 2).inf THEN Fault(M)
       ELSE RemoveStep(SetType(SetFloat(M, i, FNotInt(FloatAt(M, i - 2))), i, "Number"),
                       i, 1, 1)

\* a mode switch as a slip would have it: remove(stack, i, 1), which takes the
\* cell below the operator
EvalModeTakesOperand(M) == RemoveStep([M EXCEPT !.Mode = Cell(M, M.i).V], M.i, 1, 1)

\* case "hex", "dec", "bin", "oct"
EvalMode(M) == RemoveStep([M EXCEPT !.Mode = Cell(M, M.i).V], M.i + 1, 1, 1)

\* case "debug": the slice remove returns is dropped, so the stack keeps its
\* length and only the cells move
EvalDebug(M) ==
    [M EXCEPT !.debug = ~@, !.arrays = remove(M, M.i + 1, 1).A, !.i = @ - 1]

\* cla as a slip would have it: the variables are kept, as by clr
EvalClearKeepsVars(M) ==
    LET op == Cell(M, M.i).V
    IN CASE op \in {"cla", "clr"} -> [M EXCEPT !.stack = NilSlice, !.i = 0]
         [] op = "clv" -> [M EXCEPT !.vars = [nil |-> FALSE, m |-> <<>>]]

\* case "cla", "clr", "clv"
EvalClear(M) ==
    LET op == Cell(M, M.i).V
        fresh == [nil |-> FALSE, m |-> <<>>]
    IN CASE op = "cla" -> [M EXCEPT !.stack = NilSlice, !.vars = fresh, !.i = 0]
         [] op = "clr" -> [M EXCEPT !.stack = NilSlice, !.i = 0]
         [] op = "clv" -> [M EXCEPT !.vars = fresh]

\* depth as a slip would have it: the length of the stack
EvalDepthLen(M) == SetType(SetNewFloat(M, M.i, FromInt(M.stack.len)), M.i, "Number")

\* case "depth"
EvalDepth(M) == SetType(SetNewFloat(M, M.i, FromInt(M.i)), M.i, "Number")

\* case "drop"
EvalDrop(M) == RemoveStep(M, M.i + 1, 2, 1)

\* dropn as a slip would have it: remove(stack, i+1, n+1), which leaves one
\* of the n values
EvalDropnShort(M) ==
    LET i == M.i
        n == FInt64(FloatAt(M, i - 1))
    IN IF ~HasF(M, i - 1) THEN Fault(M)
       ELSE RemoveStep(M, i + 1, n + 1, n)

\* case "dropn"
EvalDropn(M) ==
    LET i == M.i
        n == FInt64(FloatAt(M, i - 1))
    IN IF ~HasF(M, i - 1) THEN Fault(M)
       ELSE RemoveStep(M, i + 1, n + 2, n)

\* dup as a slip would have it: the copy replaces the value, as in pick
EvalDupReplaces(M) ==
    IF ~InRange(M, M.i - 1) THEN Fault(M)
    ELSE RemoveStep(SetCell(M, M.i, Cell(M, M.i - 1)), M.i, 1, 1)

\* case "dup"
EvalDup(M) ==
    IF ~InRange(M, M.i - 1) THEN Fault(M)
    ELSE SetCell(M, M.i, Cell(M, M.i - 1))

\* two appends in a row: stack = append(dst, src...); stack = append(stack,
\* rest...), rest a slice that is read after the first append has written
Splice(M, dst, src, rest, d) ==
    LET r1 == GoAppend(M.arrays, dst, src)
        r2 == GoAppend(r1.A, r1.s, Elems(r1.A, rest))
    IN [M EXCEPT !.arrays = r2.A, !.stack = r2.s, !.i = @ - d]

\* case "dupn"
EvalDupn(M) ==
    LET i == M.i
        n == FInt64(FloatAt(M, i - 1))
        tmpS == Reslice(M.stack, i - 2 - n, i - 2)
        rest == Reslice(M.stack, i + 1, M.stack.len)
    IN IF ~HasF(M, i - 1) THEN Fault(M)
       ELSE IF ~(n >= 0 /\ i - 2 - n >= 0) THEN Fault(M)
       ELSE Splice(M, Reslice(M.stack, 0, i - 2), Elems(M.arrays, tmpS), rest, 2)

\* n % m of Go: the remainder has the sign of n
GoRem(n, m) == IF n >= 0 THEN n % m ELSE -((-n) % m)

\* case "roll"
EvalRoll(M) ==
    LET i == M.i
        n == GoRem(FInt64(FloatAt(M, i - 1)), M.stack.len)
        id == NewId(M.arrays)
        made == IF n = 0 THEN [A |-> M.arrays, s |-> NilSlice]
                ELSE [A |-> M.arrays @@ (id :> [j \in 1..n |-> Cell(M, i - 1 - j)]),
                      s |-> [arr |-> id, off |-> 0, len |-> n]]
        rest == Reslice(M.stack, i + 1, M.stack.len)
    IN IF ~HasF(M, i - 1) THEN Fault(M)
       ELSE IF ~(n >= 0 /\ i - n - 1 >= 0) THEN Fault(M)
       ELSE Splice([M EXCEPT !.arrays = made.A], made.s,
                   Elems(M.arrays, Reslice(M.stack, 0, i - n - 1)), rest, 1)

\* case "rolld": tmpS has n-1 cells and the loop writes tmpS[n-1] (or make
\* gets a negative length), so every execution panics
EvalRolld(M) == Fault(M)

\* case "repeat"
EvalRepeat(M) ==
    LET i == M.i
        n == FInt64(FloatAt(M, i - 1))
        rest == Reslice(M.stack, i + 2, M.stack.len)
    IN IF M.debug /\ ~InRange(M, i + 1) THEN Fault(M)
       ELSE IF ~HasF(M, i - 1) THEN Fault(M)
       ELSE IF n < 0 \/ (n >= 1 /\ ~InRange(M, i + 1)) \/ i + 2 > M.stack.len
       THEN Fault(M)
       ELSE Splice(M, Reslice(M.stack, 0, i - 1), [j \in 1..n |-> Cell(M, i + 1)],
                   rest, 2)

\* case "pick"
EvalPick(M) ==
    LET i == M.i
        j == FInt64(FloatAt(M, i - 1))
    IN IF ~HasF(M, i - 1) THEN Fault(M)
       ELSE IF ~InRange(M, j) THEN Fault(M)
       ELSE RemoveStep(SetCell(M, i, Cell(M, j)), i, 1, 1)

\* case "stack"
EvalStack(M) ==
    IF M.debug /\ ~InRange(M, M.i - 1) THEN Fault(M)
    ELSE [M EXCEPT !.Vertical = ~@]

\* swap as a slip would have it: no tmp, so both cells end as the upper one
EvalSwapNoTmp(M) ==
    IF ~InRange(M, M.i - 2) THEN Fault(M)
    ELSE RemoveStep(SetCell(M, M.i - 2, Cell(M, M.i - 1)), M.i + 1, 1, 0)

\* case "swap": the cursor is not moved back
EvalSwap(M) ==
    LET i == M.i
    IN IF ~InRange(M, i - 2) THEN Fault(M)
       ELSE RemoveStep(SetCell(SetCell(M, i - 2, Cell(M, i - 1)), i - 1, Cell(M, i - 2)),
                       i + 1, 1, 0)

\* case "macro"
EvalMacro(M) ==
    LET i == M.i
        name == Cell(M, i + 1).V
        def == [Cell(M, i) EXCEPT !.Code = Reslice(M.stack, i + 2, M.stack.len),
                                  !.Type = "Code", !.V = name]
    IN IF M.debug /\ ~InRange(M, i - 1) THEN Fault(M)
       ELSE IF i + 2 > M.stack.len \/ M.vars.nil THEN Fault(M)
       ELSE [SetCell(M, i, def) EXCEPT !.vars.m = (name :> def) @@ @,
                                       !.keyWords = @ \cup {name},
                                       !.stack = Reslice(M.stack, 0, i)]

\* exit as a slip would have it: the flag is set and the pass goes on
EvalExitFlagOnly(M) == [M EXCEPT !.Exit = TRUE]

\* case "exit"
EvalExit(M) == [M EXCEPT !.Exit = TRUE, !.i = M.stack.len]

\* vars[name].Code, as cells; reading a nil map gives the zero Var
BodyOf(M, name) ==
    IF M.vars.nil \/ name \notin DOMAIN M.vars.m THEN <<>>
    ELSE Elems(M.arrays, M.vars.m[name].Code)

\* default: a keyword with no case of its own is expanded as a macro
EvalExpand(M) ==
    LET i == M.i
        rest == Reslice(M.stack, i + 1, M.stack.len)
    IN Splice(M, IF i # 0 THEN Reslice(M.stack, 0, i) ELSE NilSlice,
              BodyOf(M, Cell(M, i).V), rest, 1)

\* the keywords whose case the model does not hold; a turn that meets one is
\* not taken
NotModelled ==
    {"%", "&", "|", "^", "<<", ">>", "&&", "||", "^^",
     "acos", "asin", "atan", "cos", "cosh", "sin", "sinh", "tanh",
     "e", "pi", "rand", "pow", "exp", "fact", "sqrt", "ln", "log",
     "hnl", "hns", "nhl", "nhs"}

\* the operators that read a count with Int64
Counted == {"dropn", "dupn", "roll", "rolld", "repeat", "pick"}

\* case Code, stack[i].V a keyword: stack[i].F = big.NewFloat(0), then the
\* switch on stack[i].V
EvalKeyword(M0) ==
    LET M == SetNewFloat(M0, M0.i, FVal(FALSE, {}))
        op == Cell(M, M.i).V
    IN CASE op \in {"+", "-", "*", "/"} -> EvalArith(M)
         [] op \in {"!=", "==", "<", "<=", ">", ">="} -> EvalCompare(M)
         [] op \in {"!", "++", "--"} -> EvalUnary(M)
         [] op = "~" -> EvalBitNot(M)
         [] op \in {"hex", "dec", "bin", "oct"} -> EvalMode(M)
         [] op = "debug" -> EvalDebug(M)
         [] op \in {"cla", "clr", "clv"} -> EvalClear(M)
         [] op = "depth" -> EvalDepth(M)
         [] op = "drop" -> EvalDrop(M)
         [] op = "dropn" -> EvalDropn(M)
         [] op = "dup" -> EvalDup(M)
         [] op = "dupn" -> EvalDupn(M)
         [] op = "roll" -> EvalRoll(M)
         [] op = "rolld" -> EvalRolld(M)
         [] op = "repeat" -> EvalRepeat(M)
         [] op = "pick" -> EvalPick(M)
         [] op = "stack" -> EvalStack(M)
         [] op = "swap" -> EvalSwap(M)
         [] op = "macro" -> EvalMacro(M)
         [] op = "help" -> M
         [] op = "exit" -> EvalExit(M)
         [] OTHER -> EvalExpand(M)

\* case Variable
EvalVariable(M) ==
    LET name == Cell(M, M.i).V
    IN IF ~M.vars.nil /\ name \in DOMAIN M.vars.m
       THEN [SetCell(M, M.i, M.vars.m[name]) EXCEPT !.i = @ - 1]
       ELSE SetCell(M, M.i, ZeroVar)

\* case Code
EvalCode(M) ==
    LET name == Cell(M, M.i).V
    IN IF name \in M.keyWords THEN EvalKeyword(M)
       ELSE IF ~M.vars.nil /\ name \in DOMAIN M.vars.m
       THEN [SetCell(M, M.i, M.vars.m[name]) EXCEPT !.i = @ - 1]
       ELSE Fatal(M)

\* case Assignment: the cursor is not moved back
EvalAssignment(M) ==
    LET i == M.i
    IN IF ~InRange(M, i - 1) \/ M.vars.nil THEN Fault(M)
       ELSE RemoveStep([M EXCEPT !.vars.m = (Cell(M, i).V :> Cell(M, i - 1)) @@ @],
                       i + 1, 2, 0)

\* the body of the loop of Eval for the cell stack[i]
EvalCell(M) ==
    IF ~InRange(M, M.i) THEN Fault(M)
    ELSE CASE Cell(M, M.i).Type = "Variable" -> EvalVariable(M)
           [] Cell(M, M.i).Type = "Code" -> EvalCode(M)
           [] Cell(M, M.i).Type = "Assignment" -> EvalAssignment(M)
           [] OTHER -> M

(***************************************************************************)
(* The session: main reads a line, parses it, appends its cells to the     *)
(* stack and calls Eval from the first cell not yet reduced (fp).          *)
(***************************************************************************)
VARIABLES
    stack,      \* main's stack / Eval's stack: a slice
    arrays,     \* the backing arrays of the slices
    floats,     \* the big.Float each *big.Float points to
    vars,       \* the variable table; nil after a recovered panic
    keyWords,   \* the global map keyWords (its keys)
    Mode,       \* the global Mode
    Vertical,   \* the global Vertical
    Exit,       \* the global Exit
    debug,      \* the flag debug
    fp,         \* main's fp: where the next call of Eval starts
    i,          \* the loop index of Eval
    pc,         \* "read": main waits for a line; "eval": inside the loop of
                \* Eval; "exited": os.Exit(0); "crashed": the process died
    input       \* the lines read so far

allvars == <<stack, arrays, floats, vars, keyWords, Mode, Vertical, Exit, debug,
             fp, i, pc, input>>

NoVars == [nil |-> FALSE, m |-> <<>>]
NilVars == [nil |-> TRUE, m |-> <<>>]

Init ==
    /\ stack = NilSlice
    /\ arrays = <<>>
    /\ floats = (ZeroPtr :> FVal(FALSE, {})) @@ (OnePtr :> FVal(FALSE, {0}))
    /\ vars = NoVars
    /\ keyWords = keyWords0
    /\ Mode = "dec"
    /\ Vertical = FALSE
    /\ Exit = FALSE
    /\ debug = FALSE
    /\ fp = 0
    /\ i = 0
    /\ pc = "read"
    /\ input = <<>>

\* the machine Eval works on
Cur ==
    [stack |-> stack, arrays |-> arrays, floats |-> floats, vars |-> vars,
     keyWords |-> keyWords, Mode |-> Mode, Vertical |-> Vertical, Exit |-> Exit,
     debug |-> debug, i |-> i, st |-> "ok"]

\* memory after a step: what nothing points to any more is collected
Collect(A, H, st, vt) ==
    /\ arrays' = Restrict(A, LiveArrays(A, st, vt.m))
    /\ floats' = Restrict(H, LiveFloats(A, st, vt.m))

\* the magnitudes the model follows
Bounded(H) == \A p \in DOMAIN H : \A b \in H[p].bits : b >= -MaxMag /\ b <= MaxMag

\* for k := range varsR { vars[k] = varsR[k] }
Merge(vt, names) ==
    [vt EXCEPT !.m = [n \in names |-> MkVar("Code", "=", ZeroPtr, NilSlice)] @@ @]

\* main: one line is read, split at the blanks, parsed and appended: lines
\* 1138-1144.  Writing into a nil vars is a panic nothing recovers.
ReadLine(from) ==
    /\ pc = "read"
    /\ Len(input) < MaxLines
    /\ \E line \in from :
         LET P == Parse(line, floats, keyWords)
             r == GoAppend(arrays, stack, P.stack)
         IN /\ r.s.len <= MaxStack
            /\ input' = Append(input, line)
            /\ stack' = r.s
            /\ Collect(r.A, P.floats, r.s, vars)
            /\ IF P.vars # {} /\ vars.nil
               THEN pc' = "crashed" /\ UNCHANGED <<vars, i>>
               ELSE pc' = "eval" /\ vars' = Merge(vars, P.vars) /\ i' = fp
            /\ UNCHANGED <<keyWords, Mode, Vertical, Exit, debug, fp>>

\* the cells the model can reduce
Modelled(M) ==
    LET c == Cell(M, M.i)
    IN InRange(M, M.i) /\ c.Type = "Code" /\ c.V \in M.keyWords =>
         /\ c.V \notin NotModelled
         /\ c.V \in Counted /\ HasF(M, M.i - 1) => FIntSmall(FloatAt(M, M.i - 1))

\* one turn of the loop of Eval, the i++ of the for statement included.  A
\* panic ends Eval: the deferred function recovers it and Eval returns the
\* zero values of its results, (nil, nil, 0); main then looks at Exit.
EvalStep ==
    /\ pc = "eval"
    /\ i < stack.len
    /\ Modelled(Cur)
    /\ LET R == EvalCell(Cur)
       IN /\ keyWords' = R.keyWords
          /\ Mode' = R.Mode
          /\ Vertical' = R.Vertical
          /\ Exit' = R.Exit
          /\ debug' = R.debug
          /\ CASE R.st = "fault" ->
                    /\ stack' = NilSlice
                    /\ vars' = NilVars
                    /\ fp' = 0
                    /\ i' = i
                    /\ Collect(R.arrays, R.floats, NilSlice, NilVars)
                    /\ pc' = IF R.Exit THEN "exited" ELSE "read"
               [] R.st = "fatal" ->
                    /\ pc' = "crashed"
                    /\ UNCHANGED <<stack, vars, fp, i, arrays, floats>>
               [] OTHER ->
                    /\ R.stack.len <= MaxStack
                    /\ Bounded(R.floats)
                    /\ stack' = R.stack
                    /\ vars' = R.vars
                    /\ i' = R.i + 1
                    /\ Collect(R.arrays, R.floats, R.stack, R.vars)
                    /\ UNCHANGED <<fp, pc>>
          /\ UNCHANGED input

\* PrintStack panics: outside the decimal mode it calls stack[k].F.Int(nil)
\* for every Number, and a Number whose F is nil has nothing to convert
PrintStackPanics ==
    /\ Mode # "dec"
    /\ \E k \in 1..stack.len : LET c == Elems(arrays, stack)[k]
                               IN c.Type = "Number" /\ c.F = NilPtr

\* the loop of Eval ends: return stack, vars, len(stack); main prints the
\* stack and then looks at Exit
EvalReturn ==
    /\ pc = "eval"
    /\ i >= stack.len
    /\ fp' = stack.len
    /\ pc' = IF PrintStackPanics THEN "crashed"
             ELSE IF Exit THEN "exited" ELSE "read"
    /\ UNCHANGED <<stack, arrays, floats, vars, keyWords, Mode, Vertical, Exit,
                   debug, i, input>>

(***************************************************************************)
(* What the properties look at.                                            *)
(***************************************************************************)
\* the stack, bottom first
Cells == Elems(arrays, stack)

\* Eval is about to reduce the keyword name
OpAt(name) ==
    /\ pc = "eval"
    /\ InRange(Cur, i)
    /\ Cell(Cur, i).Type = "Code"
    /\ Cell(Cur, i).V = name
    /\ name \in keyWords

\* a cell that holds a number
IsNumber(c) == c.Type = "Number" /\ c.F # NilPtr

\* two big.Float values are the same number (the zeros are one number)
SameNumber(x, y) ==
    /\ x.inf = y.inf
    /\ x.bits = y.bits
    /\ x.inf \/ x.bits # {} => x.neg = y.neg

IntValued(x) == ~x.inf /\ \A b \in x.bits : b >= 0

\* the session read exactly these lines and main waits for the next one
Reduced(lines) == pc = "read" /\ input = lines

\* the stack holds exactly the numbers xs, as Numbers
HoldsNumbers(xs) ==
    /\ stack.len = Len(xs)
    /\ \A k \in 1..Len(xs) :
         /\ IsNumber(Cells[k])
         /\ SameNumber(floats[Cells[k].F], xs[k])

\* the stack holds exactly the integers ns
HoldsInts(ns) == HoldsNumbers([k \in 1..Len(ns) |-> FromInt(ns[k])])

\* what a cell shows: its type, its name and, for a number, its value
Shape(c, H) ==
    <<c.Type, c.V,
      IF IsNumber(c) THEN [H[c.F] EXCEPT !.neg = @ /\ (H[c.F].inf \/ H[c.F].bits # {})]
      ELSE FVal(FALSE, {})>>

Shapes(cs, H) == [k \in 1..Len(cs) |-> Shape(cs[k], H)]

(***************************************************************************)
(* The sessions of the arithmetic operators.                               *)
(***************************************************************************)
ArithOps == {"+", "-", "*", "/"}

ArithLines ==
    {<<a, b, op>> : a \in {"12", "-5", "9007199254740992"},
                    b \in {"4", "1", "0"}, op \in ArithOps}

NextArith == ReadLine(ArithLines) \/ EvalStep \/ EvalReturn

SpecArith == Init /\ [][NextArith]_allvars

\* a op b, not rounded
ExactSum(x, y) ==
    IF x.neg = y.neg THEN FVal(x.neg, BAdd(x.bits, y.bits))
    ELSE IF BCmp(x.bits, y.bits) >= 0 THEN FVal(x.neg, BSub(x.bits, y.bits))
    ELSE FVal(y.neg, BSub(y.bits, x.bits))

ExactQuotient(x, y) ==
    LET top == Max(x.bits) - Max(y.bits)
    IN IF x.bits = {} THEN {} ELSE BDiv(x.bits, y.bits, IF top < 0 THEN 0 ELSE top, 0, {})

Exact(op, x, y) ==
    CASE op = "+" -> ExactSum(x, y)
      [] op = "-" -> ExactSum(x, FNeg(y))
      [] op = "*" -> FVal(x.neg # y.neg, BMul(x.bits, y.bits))
      [] op = "/" -> FVal(x.neg # y.neg, ExactQuotient(x, y))

\* the operands under the cursor suit the operator: both are integers and a
\* divisor is not zero and divides
ArithOperands(op) ==
    /\ OpAt(op)
    /\ i >= 2
    /\ IsNumber(Cells[i - 1]) /\ IsNumber(Cells[i])
    /\ IntValued(floats[Cells[i - 1].F]) /\ IntValued(floats[Cells[i].F])
    /\ op = "/" =>
         /\ floats[Cells[i].F].bits # {}
         /\ IntValued(Exact(op, floats[Cells[i - 1].F], floats[Cells[i].F]))

\* C1: reducing a b op, for integers a and b and op one of + - * (and / when
\* b is not zero and divides a), replaces the three cells by one Number equal
\* to a op b, leaves the cells below a as they were and leaves the cursor just
\* past the result.
C1_ArithmeticExact ==
    [][\A op \in ArithOps :
         ArithOperands(op) =>
           /\ pc' = "eval"
           /\ stack'.len = stack.len - 2
           /\ SubSeq(Cells', 1, i - 2) = SubSeq(Cells, 1, i - 2)
           /\ SubSeq(Cells', i, stack'.len) = SubSeq(Cells, i + 2, stack.len)
           /\ IsNumber(Cells'[i - 1])
           /\ SameNumber(floats'[Cells'[i - 1].F],
                         Exact(op, floats[Cells[i - 1].F], floats[Cells[i].F]))
           /\ i' = i - 1]_allvars

(***************************************************************************)
(* The sessions of assignment and reference.                               *)
(***************************************************************************)
VarValues == {"1024", "7"}
VarNames == {"x", "y"}

VarLines ==
    {<<v, n \o "=">> : v \in VarValues, n \in VarNames}
    \cup {<<v, "=" \o n>> : v \in VarValues, n \in VarNames}
    \cup {<<n>> : n \in VarNames}

NextVars == ReadLine(VarLines) \/ EvalStep \/ EvalReturn

SpecVars == Init /\ [][NextVars]_allvars

\* C2: the line v name= binds v to name and removes both cells, and the line
\* name then resolves the reference: the stack ends as exactly [v].
C2_VariableRoundTrip ==
    \A v \in VarValues, n \in VarNames :
      /\ Reduced(<<<<v, n \o "=">>>>) =>
           /\ stack.len = 0
           /\ ~vars.nil /\ n \in DOMAIN vars.m /\ IsNumber(vars.m[n])
           /\ SameNumber(floats[vars.m[n].F], BigParse(v, 10).v)
      /\ Reduced(<<<<v, n \o "=">>, <<n>>>>) => HoldsNumbers(<<BigParse(v, 10).v>>)

(***************************************************************************)
(* The sessions of macros.                                                 *)
(***************************************************************************)
MacroLines ==
    {<<"macro", "sq", "dup", "*">>, <<"macro", "kib", "1024", "*">>,
     <<"5", "sq">>, <<"3", "kib">>, <<"3", "kib", "7">>, <<"2", "sq", "sq">>,
     <<"6", "sq", "kib">>, <<"4">>}

NextMacro == ReadLine(MacroLines) \/ EvalStep \/ EvalReturn

SpecMacro == Init /\ [][NextMacro]_allvars

\* the line that defined name, if one was read
DefinedBy(line, name) ==
    /\ Len(line) >= 2
    /\ line[1] = "macro"
    /\ line[2] = name
    /\ name \notin keyWords0

\* the cells the tokens b1 ... bk of the definition stand for
BodyShapes(line) ==
    LET P == Parse(SubSeq(line, 3, Len(line)), floats, keyWords)
    IN Shapes(P.stack, P.floats)

\* C3: once macro name b1 ... bk is defined, a later line that invokes name
\* reduces as the line with name replaced by b1 ... bk: the invocation is
\* replaced by the cells of b1 ... bk, whatever lies before and after it
\* (macro sq dup * and then 5 sq leaves [25]).
C3_MacroTransparent ==
    /\ [][\A k \in 1..Len(input) :
            DefinedBy(input[k], input[k][2]) /\ OpAt(input[k][2]) /\ Len(input) > k =>
              /\ pc' = "eval"
              /\ i' = i
              /\ Shapes(Cells', floats')
                   = Shapes(SubSeq(Cells, 1, i), floats)
                     \o BodyShapes(input[k])
                     \o Shapes(SubSeq(Cells, i + 2, stack.len), floats)]_allvars
    /\ [](Reduced(<<<<"macro", "sq", "dup", "*">>, <<"5", "sq">>>>) => HoldsInts(<<25>>))

(***************************************************************************)
(* The sessions of the comparisons.                                        *)
(***************************************************************************)
CmpOps == {"<", "<=", ">", ">=", "==", "!="}
CmpValues == {3, 4}

CmpLines == {<<ToString(a), ToString(b), op>> : a \in CmpValues, b \in CmpValues, op \in CmpOps}

NextCmp == ReadLine(CmpLines) \/ EvalStep \/ EvalReturn

SpecCmp == Init /\ [][NextCmp]_allvars

\* a op b
Holds(op, a, b) ==
    CASE op = "<" -> a < b
      [] op = "<=" -> a <= b
      [] op = ">" -> a > b
      [] op = ">=" -> a >= b
      [] op = "==" -> a = b
      [] op = "!=" -> a # b

\* C4: a b op, for op a comparison, consumes both operands and leaves one
\* Number: 1 when a op b holds, 0 when it does not (3 4 < is true, 4 3 < is
\* false, 3 3 == is true).
C4_ComparisonTable ==
    \A a \in CmpValues, b \in CmpValues, op \in CmpOps :
      Reduced(<<<<ToString(a), ToString(b), op>>>>) =>
        HoldsInts(<<IF Holds(op, a, b) THEN 1 ELSE 0>>)

(***************************************************************************)
(* The sessions with faults.                                               *)
(***************************************************************************)
FaultLines ==
    {<<"+", "5">>, <<"1", "+", "5">>, <<"1", "2", "+">>, <<"dup", "7">>,
     <<"swap", "1">>, <<"drop", "4">>, <<"3", "drop", "4">>, <<"6", "pick", "2">>,
     <<"0", "0", "/", "9">>, <<"8">>, <<"2", "=x">>}

NextFault == ReadLine(FaultLines) \/ EvalStep \/ EvalReturn

SpecFault == Init /\ [][NextFault]_allvars

\* reducing the cell under the cursor faults
Faults == pc = "eval" /\ i < stack.len /\ EvalCell(Cur).st = "fault"

\* C5: when reducing one cell faults, the fault is caught and the pass goes on
\* with the next cell of the line: the cells after the faulting one are still
\* there to be reduced in that pass.
C5_FaultIsolated ==
    [][Faults =>
         /\ pc' = "eval"
         /\ i' = i + 1
         /\ stack'.len > i
         /\ SubSeq(Cells', i' + 1, stack'.len) = SubSeq(Cells, i + 2, stack.len)]_allvars

(***************************************************************************)
(* The sessions of the stack, mode and clear operators.                    *)
(***************************************************************************)
Modes == {"hex", "dec", "bin", "oct"}

Lines ==
    {<<"5", "hex", "hex">>, <<"5", "hex">>, <<"oct", "3">>, <<"bin">>,
     <<"dec", "dec">>, <<"5", "dup">>, <<"dup">>, <<"1", "2", "swap", "9">>,
     <<"1", "2", "swap">>, <<"7", "depth", "8">>, <<"depth">>,
     <<"1", "2", "cla", "3">>, <<"cla">>, <<"macro", "sq", "dup", "*">>,
     <<"4", "=x">>, <<"6", "sq">>, <<"debug", "1", "2", "swap">>}

Next == ReadLine(Lines) \/ EvalStep \/ EvalReturn

Spec == Init /\ [][Next]_allvars

\* C6: cla, from any state of the session, leaves the stack empty, the
\* variable table empty and the cursor at 0: the operator sets the loop index
\* to 0 (the for statement then adds one), the pass is over, and the cursor
\* main keeps is 0.
C6_ClaClearsAll ==
    /\ [][OpAt("cla") =>
            /\ pc' = "eval"
            /\ stack'.len = 0
            /\ vars' = NoVars
            /\ i' - 1 = 0]_allvars
    /\ [][pc = "eval" /\ stack.len = 0 /\ pc' # "eval" =>
            /\ fp' = 0
            /\ stack'.len = 0
            /\ vars' = vars]_allvars

C6_ClaCleared ==
    /\ Reduced(<<<<"4", "=x">>, <<"1", "2", "cla", "3">>>>)
    /\ stack.len = 0
    /\ vars = NoVars
    /\ fp = 0

\* C7: a mode switch m sets Mode to m, removes its own cell and nothing else,
\* and a second m in a row changes nothing more (5 hex hex leaves Mode hex and
\* the stack [5], as 5 hex does).
C7_ModeSwitch ==
    /\ [][\A m \in Modes :
            OpAt(m) =>
              /\ pc' = "eval"
              /\ Mode' = m
              /\ Shapes(Cells', floats')
                   = Shapes(SubSeq(Cells, 1, i), floats)
                     \o Shapes(SubSeq(Cells, i + 2, stack.len), floats)
              /\ i' = i
              /\ Mode = m => Mode' = Mode]_allvars
    /\ [](Reduced(<<<<"5", "hex">>>>) \/ Reduced(<<<<"5", "hex", "hex">>>>) =>
            Mode = "hex" /\ HoldsInts(<<5>>))

C7_SwitchedTwice ==
    Reduced(<<<<"5", "dup">>, <<"5", "hex", "hex">>>>) /\ Mode = "hex" /\ HoldsInts(<<5, 5, 5>>)

\* C8: depth takes no operand and turns its own cell into a Number equal to
\* the cursor when it runs, the number of cells below it (those of earlier
\* lines too), which is not the length of the stack when cells follow it.
C8_DepthIsCursor ==
    /\ [][OpAt("depth") =>
            /\ pc' = "eval"
            /\ stack'.len = stack.len
            /\ i' = i + 1
            /\ IsNumber(Cells'[i + 1])
            /\ SameNumber(floats'[Cells'[i + 1].F], FromInt(i))
            /\ \A k \in (1..stack.len) \ {i + 1} :
                 Shape(Cells'[k], floats') = Shape(Cells[k], floats)]_allvars
    /\ [](Reduced(<<<<"7", "depth", "8">>>>) => HoldsInts(<<7, 1, 8>>))

C8_DepthCounted ==
    Reduced(<<<<"5", "dup">>, <<"7", "depth", "8">>>>) /\ HoldsInts(<<5, 5, 7, 3, 8>>)

\* C9: dup, with a value v right below it, turns its own cell into a copy of v
\* and leaves v and every other cell as they were (5 dup leaves [5, 5]).
C9_DupCopies ==
    /\ [][OpAt("dup") /\ i >= 1 =>
            /\ pc' = "eval"
            /\ i' = i + 1
            /\ Shapes(Cells', floats')
                 = [Shapes(Cells, floats) EXCEPT ![i + 1] = Shape(Cells[i], floats)]]_allvars
    /\ [](Reduced(<<<<"5", "dup">>>>) => HoldsInts(<<5, 5>>))

C9_Duplicated ==
    Reduced(<<<<"1", "2", "swap">>, <<"5", "dup">>>>) /\ HoldsInts(<<2, 1, 5, 5>>)

\* C10: swap, with a and b below it, exchanges them and removes its own cell
\* only: the stack then reads ..., b, a, and the cells below a and after the
\* operator are as they were, in order.
C10_SwapExchanges ==
    /\ [][OpAt("swap") /\ i >= 2 =>
            /\ pc' = "eval"
            /\ Shapes(Cells', floats')
                 = Shapes(SubSeq(Cells, 1, i - 2), floats)
                   \o <<Shape(Cells[i], floats), Shape(Cells[i - 1], floats)>>
                   \o Shapes(SubSeq(Cells, i + 2, stack.len), floats)]_allvars
    /\ [](Reduced(<<<<"1", "2", "swap">>>>) => HoldsInts(<<2, 1>>))

C10_Swapped ==
    Reduced(<<<<"5", "dup">>, <<"1", "2", "swap", "9">>>>) /\ HoldsInts(<<5, 5, 2, 1, 9>>)

(***************************************************************************)
(* The sessions of the operators that take a count.                        *)
(***************************************************************************)
CountLines ==
    {<<"1", "2", "3", "2", "dropn", "9">>, <<"1", "2", "0", "dropn">>,
     <<"7", "1", "dropn", "8">>, <<"4", "drop", "5">>,
     <<"1", "2", "3", "2", "dupn">>, <<"5", "6", "1", "dupn">>,
     <<"1", "2", "3", "1", "roll">>, <<"1", "2", "3", "2", "roll">>,
     <<"1", "2", "3", "1", "rolld">>,
     <<"1", "1", "1", "1", "3", "repeat", "+">>,
     <<"1", "4", "repeat", "dup", "9">>, <<"5", "0", "repeat", "+", "7">>,
     <<"6">>}

NextCount == ReadLine(CountLines) \/ EvalStep \/ EvalReturn

SpecCount == Init /\ [][NextCount]_allvars

\* the cell right below the cursor holds an integer count
CountBelow == i >= 1 /\ IsNumber(Cells[i]) /\ IntValued(floats[Cells[i].F])

\* that count
TheCount == FInt64(floats[Cells[i].F])

\* the stack after the step is the cells below the cursor index lo, then the
\* cells mid, then the cells that followed the operator
Replaced(lo, mid) ==
    Shapes(Cells', floats')
      = Shapes(SubSeq(Cells, 1, lo), floats) \o mid
        \o Shapes(SubSeq(Cells, i + 2, stack.len), floats)

\* C11: dropn, with an integer count n >= 0 below it and at least n values
\* below the count, removes those n values, the count and its own cell and
\* leaves every other cell as it was, in order; drop removes the one value
\* below it and its own cell.
C11_DropRemoves ==
    /\ [][OpAt("dropn") /\ CountBelow /\ TheCount >= 0 /\ TheCount <= i - 1 =>
            /\ pc' = "eval"
            /\ stack'.len = stack.len - TheCount - 2
            /\ Replaced(i - 1 - TheCount, <<>>)]_allvars
    /\ [][OpAt("drop") /\ i >= 1 =>
            /\ pc' = "eval"
            /\ stack'.len = stack.len - 2
            /\ Replaced(i - 1, <<>>)]_allvars
    /\ [](Reduced(<<<<"1", "2", "3", "2", "dropn", "9">>>>) => HoldsInts(<<1, 9>>))

C11_Dropped ==
    /\ Reduced(<<<<"4", "drop", "5">>, <<"1", "2", "3", "2", "dropn", "9">>>>)
    /\ HoldsInts(<<5, 1, 9>>)

\* C12: dupn, with a count n below it and at least n values below the count,
\* puts copies of those n values, in their order, where the count and its own
\* cell were, and leaves the n values and every cell below them as they were
\* (1 2 3 2 dupn leaves 1 2 3 2 3).
C12_DupnCopies ==
    /\ [][OpAt("dupn") /\ CountBelow /\ TheCount >= 0 /\ TheCount <= i - 1 =>
            /\ pc' = "eval"
            /\ Replaced(i - 1, Shapes(SubSeq(Cells, i - TheCount, i - 1), floats))]_allvars
    /\ [](Reduced(<<<<"1", "2", "3", "2", "dupn">>>>) => HoldsInts(<<1, 2, 3, 2, 3>>))

\* xs turned upward by n places: every value moves n places toward the top
\* and the values that pass the top come back in at the bottom
RotateUp(xs, n) ==
    LET m == Len(xs)
    IN [j \in 1..m |-> xs[((j - 1 + m - (n % m)) % m) + 1]]

\* C13: roll (rolld), with a count n below it, removes the count and its own
\* cell and leaves the values that were below the count turned upward
\* (downward) by n places: the same values in the same cyclic order, none
\* lost, doubled or reversed; the cells after the operator stay.
C13_RollRotates ==
    /\ [][OpAt("roll") /\ CountBelow /\ TheCount >= 0 /\ i >= 2 =>
            /\ pc' = "eval"
            /\ Shapes(Cells', floats')
                 = RotateUp(Shapes(SubSeq(Cells, 1, i - 1), floats), TheCount)
                   \o Shapes(SubSeq(Cells, i + 2, stack.len), floats)]_allvars
    /\ [][OpAt("rolld") /\ CountBelow /\ TheCount >= 0 /\ i >= 2 =>
            /\ pc' = "eval"
            /\ Shapes(Cells', floats')
                 = RotateUp(Shapes(SubSeq(Cells, 1, i - 1), floats),
                            (i - 1) - (TheCount % (i - 1)))
                   \o Shapes(SubSeq(Cells, i + 2, stack.len), floats)]_allvars

\* C14: repeat, with a count n >= 0 below it and a template cell right after
\* it, puts n copies of the template where the count, its own cell and the
\* template were, leaves the cells below the count and after the template as
\* they were, in order, and the copies are then reduced in turn
\* (1 1 1 1 3 repeat + leaves [4]).
C14_RepeatCopies ==
    /\ [][OpAt("repeat") /\ CountBelow /\ TheCount >= 0 /\ i + 2 <= stack.len =>
            /\ pc' = "eval"
            /\ Shapes(Cells', floats')
                 = Shapes(SubSeq(Cells, 1, i - 1), floats)
                   \o [j \in 1..TheCount |-> Shape(Cells[i + 2], floats)]
                   \o Shapes(SubSeq(Cells, i + 3, stack.len), floats)]_allvars
    /\ [](Reduced(<<<<"1", "1", "1", "1", "3", "repeat", "+">>>>) => HoldsInts(<<4>>))

(***************************************************************************)
(* The sessions of macros that take the name of a builtin.                 *)
(***************************************************************************)
ShadowLines ==
    {<<"macro", "dup", "1", "+">>, <<"5", "dup">>,
     <<"macro", "abs", "1", "+">>, <<"5", "abs">>,
     <<"macro", "depth", "7">>, <<"depth">>,
     <<"macro", "swap", "drop">>, <<"1", "2", "swap">>, <<"3">>}

NextShadow == ReadLine(ShadowLines) \/ EvalStep \/ EvalReturn

SpecShadow == Init /\ [][NextShadow]_allvars

\* the line defines a macro under the name of a builtin
Shadows(line) ==
    /\ Len(line) >= 2
    /\ line[1] = "macro"
    /\ line[2] \in keyWords0

\* C15: once a macro is defined under the name of a builtin operator, a cell
\* of that name on a later line expands to the body of the macro and the
\* builtin does not run (macro dup 1 + and then 5 dup leaves [6]).
C15_MacroShadows ==
    /\ [][\A k \in 1..Len(input) :
            Shadows(input[k]) /\ OpAt(input[k][2]) /\ Len(input) > k =>
              /\ pc' = "eval"
              /\ i' = i
              /\ Shapes(Cells', floats')
                   = Shapes(SubSeq(Cells, 1, i), floats)
                     \o BodyShapes(input[k])
                     \o Shapes(SubSeq(Cells, i + 2, stack.len), floats)]_allvars
    /\ [](Reduced(<<<<"macro", "dup", "1", "+">>, <<"5", "dup">>>>) => HoldsInts(<<6>>))

(***************************************************************************)
(* References to names that are not bound (the sessions of SpecVars).      *)
(***************************************************************************)
\* Eval is about to reduce a Variable cell whose name the table does not hold
UnboundAt ==
    /\ pc = "eval"
    /\ InRange(Cur, i)
    /\ Cell(Cur, i).Type = "Variable"
    /\ vars.nil \/ Cell(Cur, i).V \notin DOMAIN vars.m

\* C16: reducing a Variable cell whose name is not bound is not fatal and
\* leaves the reference where it is: the cell is still Variable(name), the
\* rest of the stack is as it was and the pass goes on with the next cell.
C16_UnboundKept ==
    [][UnboundAt =>
         /\ pc' = "eval"
         /\ i' = i + 1
         /\ Cells'[i + 1].Type = "Variable"
         /\ Cells'[i + 1].V = Cells[i + 1].V
         /\ Shapes(Cells', floats') = Shapes(Cells, floats)]_allvars

(***************************************************************************)
(* The sessions of tokens with a base prefix.                              *)
(***************************************************************************)
BaseTokens == {"0x1F", "0d12", "0o17", "0b101"}

BaseLines ==
    {<<t>> : t \in BaseTokens}
    \cup {<<"31">>, <<"0x1F", "1", "+">>, <<"0b101", "2", "*">>, <<"12", "5", "+">>,
          <<"7">>}

NextBase == ReadLine(BaseLines) \/ EvalStep \/ EvalReturn

SpecBase == Init /\ [][NextBase]_allvars

\* the base a prefix letter stands for
BaseOf(c) ==
    CASE c = "x" -> 16
      [] c = "d" -> 10
      [] c = "o" -> 8
      [] c = "b" -> 2

\* the number the digits s write in the base
RECURSIVE ValueIn(_, _)
ValueIn(s, base) ==
    IF Len(s) = 0 THEN 0
    ELSE base * ValueIn(SubSeq(s, 1, Len(s) - 1), base)
         + (CHOOSE d \in 0..15 : At("0123456789ABCDEF", d + 1) = At(s, Len(s)))

\* C17: a token of more than three characters with one of the prefixes 0x, 0d,
\* 0o, 0b becomes a Number whose value is the rest of the token read in that
\* base (0x1F is 31); it is neither dropped nor made a variable.
C17_BasePrefix ==
    \A t \in BaseTokens :
      Reduced(<<<<t>>>>) =>
        HoldsInts(<<ValueIn(SubSeq(t, 3, Len(t)), BaseOf(At(t, 2)))>>)

(***************************************************************************)
(* The sessions that end with exit.                                        *)
(***************************************************************************)
ExitLines ==
    {<<"1", "exit", "2", "+">>, <<"exit">>, <<"1", "2", "+", "exit">>,
     <<"+", "exit">>, <<"exit", "+">>, <<"hex", "x", "exit">>,
     <<"5", "dup">>, <<"3">>, <<"1", "2", "swap">>, <<"7", "depth">>}

NextExit == ReadLine(ExitLines) \/ EvalStep \/ EvalReturn

SpecExit == Init /\ [][NextExit]_allvars

LiveLines ==
    {<<"debug">>, <<"debug", "5">>, <<"1", "debug">>, <<"5", "dup">>,
     <<"1", "2", "swap">>, <<"stack", "8">>, <<"3">>, <<"4", "drop">>,
     <<"dup">>, <<"x">>, <<"1", "exit", "2">>}

NextLive == ReadLine(LiveLines) \/ EvalStep \/ EvalReturn

SpecLive ==
    /\ Init
    /\ [][NextLive]_allvars
    /\ WF_allvars(EvalStep)
    /\ WF_allvars(EvalReturn)

\* C19: every pass terminates: once Eval has started on a line, after
\* finitely many turns the cursor is at the end of the stack and control is
\* back in main, before the next line is read.
C19_PassTerminates == (pc = "eval") ~> (pc # "eval" /\ (pc = "read" => fp = stack.len))

(***************************************************************************)
(* The cursor: sessions where cells follow an operator on its line.        *)
(***************************************************************************)
CursorLines ==
    {<<"1", "2", "swap", "+">>, <<"1", "2", "swap">>, <<"3", "drop", "dup">>,
     <<"1", "2", "+", "dup">>, <<"5", "hex", "dup">>,
     <<"1", "2", "3", "1", "dropn", "+">>, <<"1", "2", "3", "1", "roll", "+">>,
     <<"4", "=x", "dup">>, <<"macro", "sq", "dup", "*">>, <<"6", "sq">>, <<"7">>}

NextCursor == ReadLine(CursorLines) \/ EvalStep \/ EvalReturn

SpecCursor == Init /\ [][NextCursor]_allvars

\* where the first cell after the operator lies once the step is done (as a
\* loop index, from 0)
Follower == stack'.len - (stack.len - i - 1)

\* Eval is about to reduce an Assignment cell with a value below it
AssignAt == pc = "eval" /\ InRange(Cur, i) /\ Cell(Cur, i).Type = "Assignment" /\ i >= 1

\* Eval is about to expand a macro the user defined
ExpandAt ==
    \E name \in keyWords \ keyWords0 :
      OpAt(name) /\ ~vars.nil /\ name \in DOMAIN vars.m

\* C20: the cursor never skips a pending cell.  After an arithmetic step, a
\* swap, a drop, a dropn, a roll, an assignment or a mode switch the next cell
\* examined is the first one after what the step consumed or produced; after
\* a macro expansion it is the first cell spliced in; and when a pass ends
\* normally no operator or assignment cell is left on the stack unexecuted.
C20_CursorInvariant ==
    /\ [][\/ \E op \in ArithOps : ArithOperands(op)
          \/ OpAt("swap") /\ i >= 2
          \/ OpAt("drop") /\ i >= 1
          \/ OpAt("dropn") /\ CountBelow /\ TheCount >= 0 /\ TheCount <= i - 1
          \/ OpAt("roll") /\ CountBelow /\ TheCount >= 0 /\ i >= 2
          \/ AssignAt
          \/ \E m \in Modes : OpAt(m)
          => pc' = "eval" /\ i' = Follower]_allvars
    /\ [][ExpandAt => pc' = "eval" /\ i' = i]_allvars
    /\ [](pc = "read" =>
            \A k \in 1..stack.len : Cells[k].Type \notin {"Code", "Assignment"})

(***************************************************************************)
(* What a fault leaves behind (the sessions of SpecFault).                 *)
(***************************************************************************)
\* C21: a fault caught during a pass discards no session state: the variable
\* table keeps every binding it held and stays a map that later assignments
\* and macro definitions can write to, and the cells below the operands of
\* the faulting operator are still on the stack.
C21_FaultKeepsState ==
    /\ [][Faults =>
            /\ vars' = vars
            /\ stack'.len >= i - 2
            /\ \A k \in 1..(i - 2) :
                 Shape(Cells'[k], floats') = Shape(Cells[k], floats)]_allvars
    /\ [](~vars.nil)

(***************************************************************************)
(* The stored body of a macro (the sessions of SpecMacro).                 *)
(***************************************************************************)
\* the body the variable table holds for name, as shapes
StoredBody(name) == Shapes(Elems(arrays, vars.m[name].Code), floats)

\* C22: the body stored for a macro stays the cell sequence captured at its
\* definition, whatever lines are appended to the stack afterwards, however
\* often the macro is expanded and whatever reduces the live stack, so
\* every invocation expands to the same cells.
C22_BodyImmutable ==
    \A k \in 1..Len(input) :
      (/\ DefinedBy(input[k], input[k][2])
       /\ ~vars.nil
       /\ input[k][2] \in DOMAIN vars.m)
        => StoredBody(input[k][2]) = BodyShapes(input[k])

(***************************************************************************)
(* The sessions where one number is held in several places.                *)
(***************************************************************************)
ShareLines ==
    {<<"5", "dup", "++">>, <<"5", "dup", "--">>, <<"7", "0", "pick", "!">>,
     <<"1", "2", "!=", "++">>, <<"4", "4", "!=", "++">>, <<"2", "1", "!=", "--">>,
     <<"3", "4", "!=">>, <<"3", "3", "!=">>, <<"3", "++">>, <<"3", "4", "--">>,
     <<"macro", "one", "1">>, <<"one", "++">>, <<"one">>}

NextShare == ReadLine(ShareLines) \/ EvalStep \/ EvalReturn

SpecShare == Init /\ [][NextShare]_allvars

InPlaceOps == {"!", "++", "--"}

\* every body of the table V, as shapes
BodiesIn(V, A, H) ==
    IF V.nil THEN <<>>
    ELSE [name \in DOMAIN V.m |-> Shapes(Elems(A, V.m[name].Code), H)]

\* the cell below the cursor holds a number
NumberBelow == i >= 1 /\ IsNumber(Cells[i])

\* C23: numbers held in different places are independent: ++, -- and !
\* change the one cell right below them and no other stack cell (not the
\* other copy made by dup or pick), no literal of a stored macro body and
\* neither of the constants Zero and One, so a comparison always leaves
\* exactly 0 or 1.
C23_ValuesIndependent ==
    /\ [][(\E op \in InPlaceOps : OpAt(op)) /\ NumberBelow =>
            /\ stack'.len = stack.len - 1
            /\ \A k \in 1..(i - 1) :
                 Shape(Cells'[k], floats') = Shape(Cells[k], floats)
            /\ \A k \in (i + 2)..stack.len :
                 Shape(Cells'[k - 1], floats') = Shape(Cells[k], floats)
            /\ BodiesIn(vars', arrays', floats') = BodiesIn(vars, arrays, floats)]_allvars
    /\ [](/\ SameNumber(floats[OnePtr], FromInt(1))
          /\ SameNumber(floats[ZeroPtr], FromInt(0)))
    /\ [][(\E op \in CmpOps : OpAt(op)) /\ i >= 2 /\ pc' = "eval" =>
            /\ IsNumber(Cells'[i - 1])
            /\ \/ SameNumber(floats'[Cells'[i - 1].F], FromInt(0))
               \/ SameNumber(floats'[Cells'[i - 1].F], FromInt(1))]_allvars

(***************************************************************************)
(* The sessions of the unary operators.                                    *)
(***************************************************************************)
UnaryLines ==
    {<<"5", "~">>, <<"1", "5", "~">>, <<"3", "4", "~", "9">>, <<"0", "~">>,
     <<"5", "!">>, <<"2", "3", "!", "9">>, <<"5", "++">>, <<"3", "4", "++", "9">>,
     <<"5", "--">>, <<"3", "4", "--", "9">>, <<"0", "--">>, <<"6">>}

NextUnary == ReadLine(UnaryLines) \/ EvalStep \/ EvalReturn

SpecUnary == Init /\ [][NextUnary]_allvars

UnaryOps == {"!", "~", "++", "--"}

\* what op makes of the number x
UnaryOf(op, x) ==
    CASE op = "!" -> FNeg(x)
      [] op = "~" -> FNotInt(x)
      [] op = "++" -> FAdd(x, FromInt(1)).v
      [] op = "--" -> FSub(x, FromInt(1)).v

\* C24: each of ! ~ ++ -- consumes exactly the one cell right below it: the
\* result is computed from that cell alone and takes its place, the operator
\* cell is removed, the stack shrinks by one and every other cell is as it
\* was; one value on the stack is enough.
C24_UnaryConsumesOne ==
    [][\A op \in UnaryOps : OpAt(op) /\ NumberBelow =>
         /\ pc' = "eval"
         /\ stack'.len = stack.len - 1
         /\ i' = i
         /\ \A k \in 1..(i - 1) :
              Shape(Cells'[k], floats') = Shape(Cells[k], floats)
         /\ IsNumber(Cells'[i])
         /\ SameNumber(floats'[Cells'[i].F], UnaryOf(op, floats[Cells[i].F]))
         /\ \A k \in (i + 2)..stack.len :
              Shape(Cells'[k - 1], floats') = Shape(Cells[k], floats)]_allvars

(***************************************************************************)
(* The sessions of debug.                                                  *)
(***************************************************************************)
DebugLines ==
    {<<"debug", "5">>, <<"1", "debug", "2">>, <<"1", "debug">>, <<"debug">>,
     <<"1", "2", "debug", "+">>, <<"debug", "debug", "3">>, <<"4">>, <<"6", "7">>,
     <<"2", "stack">>, <<"5", "dup">>}

NextDebug == ReadLine(DebugLines) \/ EvalStep \/ EvalReturn

SpecDebug == Init /\ [][NextDebug]_allvars

\* C25: debug toggles the trace flag once, removes its own cell and consumes
\* no operand: the stack afterwards is the stack before without the debug
\* cell, one cell shorter, the other cells unchanged and in order, wherever
\* debug stands on the line.
C25_DebugRemovesItself ==
    [][OpAt("debug") =>
         /\ debug' = ~debug
         /\ pc' = "eval"
         /\ stack'.len = stack.len - 1
         /\ Replaced(i, <<>>)]_allvars

(***************************************************************************)
(* The sessions of clv, stack and help.                                    *)
(***************************************************************************)
Silent == {"clv", "stack", "help"}

SilentLines ==
    {<<"1", "2", kw, "+">> : kw \in Silent}
      \cup {<<"4", kw, "5", "*">> : kw \in Silent}
      \cup {<<kw, "6">> : kw \in Silent}
      \cup {<<"1", "2", "+">>, <<"4", "5", "*">>, <<"6">>, <<"2", "=x">>}

NextSilent == ReadLine(SilentLines) \/ EvalStep \/ EvalReturn

SpecSilent == Init /\ [][NextSilent]_allvars

\* C26: clv, stack and help consume no operand and leave the values of the
\* stack alone: a line with one of them between the operands and a later
\* operator leaves the same values as the line without it (1 2 clv + leaves
\* [3], as 1 2 + does); clv changes only the variable table and stack only
\* the vertical-display toggle.
C26_NoStackEffect ==
    /\ [](/\ Reduced(<<<<"1", "2", "+">>>>) => HoldsInts(<<3>>)
          /\ Reduced(<<<<"4", "5", "*">>>>) => HoldsInts(<<20>>)
          /\ Reduced(<<<<"6">>>>) => HoldsInts(<<6>>)
          /\ \A kw \in Silent :
               /\ Reduced(<<<<"1", "2", kw, "+">>>>) => HoldsInts(<<3>>)
               /\ Reduced(<<<<"4", kw, "5", "*">>>>) => HoldsInts(<<20>>))
    /\ [][OpAt("clv") =>
            /\ ~vars'.nil /\ vars'.m = <<>>
            /\ <<Mode, Vertical, Exit, debug>>' = <<Mode, Vertical, Exit, debug>>]_allvars
    /\ [][OpAt("stack") =>
            /\ Vertical' = ~Vertical
            /\ <<Mode, vars, Exit, debug>>' = <<Mode, vars, Exit, debug>>]_allvars
====
